---- MODULE Spec2Model ----
(***************************************************************************)
(* A model of openssl/src/asn1.rs: the owning/view wrappers over OpenSSL's *)
(* ASN.1 primitives.  Each wrapper method is one action (the renderers and *)
(* days_from_now are split at their statement boundaries).  The OpenSSL    *)
(* routines the wrappers call are operators named after the C function and *)
(* follow the 1.0.2 sources the file is built against (cfg ossl101/102).   *)
(*                                                                         *)
(* Machine integers are little-endian sequences of bytes in two's          *)
(* complement, so that every `as` conversion and every wrap is explicit.   *)
(***************************************************************************)
EXTENDS Integers, Sequences, FiniteSets, TLC

VARIABLES
    build,      \* the target: width of c_long, overflow checks on or off
    asn1int,    \* the native ASN1_INTEGER behind an Asn1IntegerRef
    intRes,     \* the last Asn1IntegerRef call and what it returned
    bits,       \* the native ASN1_BIT_STRING behind an Asn1BitStringRef (its data)
    bitRes,     \* the last Asn1BitStringRef call and what it returned
    heap,       \* the native objects: the registry's, then those allocated since
    owners,     \* the owning values created so far
    res,        \* the last constructor, clone, drop or nid call and its result
    txt,        \* the Asn1ObjectRef::text() call in progress, and its caller's read
    bios,       \* the scratch buffers (MemBio) acquired so far
    render,     \* the Display::fmt call of a time or octet string in progress
    dfn         \* the Asn1Time::days_from_now call in progress

vars ==
    <<build, asn1int, intRes, bits, bitRes, heap, owners, res, txt, bios, render, dfn>>

-----------------------------------------------------------------------------
(* Machine integers *)

RECURSIVE Pow2(_)
Pow2(n) == IF n = 0 THEN 1 ELSE 2 * Pow2(n - 1)

RECURSIVE Pow256(_)
Pow256(n) == IF n = 0 THEN 1 ELSE 256 * Pow256(n - 1)

\* the low `len` bytes of a natural number below 2^31
NatToBytes(n, len) == [i \in 1..len |-> IF i > 4 THEN 0 ELSE (n \div Pow256(i - 1)) % 256]

\* an i32 as its four bytes
I32ToBytes(v) ==
    IF v >= 0
    THEN NatToBytes(v, 4)
    ELSE LET u == (v + 2147483647) + 1
         IN  [NatToBytes(u, 4) EXCEPT ![4] = @ + 128]

IsNeg(b) == b[Len(b)] >= 128

SignExtend(b, len) ==
    [i \in 1..len |-> IF i <= Len(b) THEN b[i] ELSE IF IsNeg(b) THEN 255 ELSE 0]

ZeroExtend(b, len) == [i \in 1..len |-> IF i <= Len(b) THEN b[i] ELSE 0]

RECURSIVE MulCarry(_, _, _, _)
MulCarry(b, k, i, carry) ==
    IF i > Len(b)
    THEN <<>>
    ELSE LET t == b[i] * k + carry
         IN  <<t % 256>> \o MulCarry(b, k, i + 1, t \div 256)

\* b * k modulo 2^(8 * Len(b))
WrappingMul(b, k) == MulCarry(b, k, 1, 0)

RECURSIVE AddCarry(_, _, _)
AddCarry(b, i, carry) ==
    IF i > Len(b)
    THEN <<>>
    ELSE LET t == b[i] + carry
         IN  <<t % 256>> \o AddCarry(b, i + 1, t \div 256)

\* -b modulo 2^(8 * Len(b)): what `d = -d` computes on a two's complement machine
WrappingNeg(b) == AddCarry([i \in 1..Len(b) |-> 255 - b[i]], 1, 1)

\* the number of bytes up to the highest nonzero one
RECURSIVE SigLen(_, _)
SigLen(b, n) == IF n = 0 THEN 0 ELSE IF b[n] # 0 THEN n ELSE SigLen(b, n - 1)

Reverse(s) == [i \in 1..Len(s) |-> s[Len(s) + 1 - i]]

MinusOne(w) == [i \in 1..w |-> 255]

Zero(w) == [i \in 1..w |-> 0]

\* the value of four bytes read as an i32
I32FromBytes(b) ==
    LET low == b[1] + 256 * b[2] + 65536 * b[3]
    IN  IF b[4] >= 128
        THEN ((low + 16777216 * (b[4] - 128)) - 2147483647) - 1
        ELSE low + 16777216 * b[4]

-----------------------------------------------------------------------------
(* The build *)

\* c_long is 4 bytes on 32-bit and on Windows targets, 8 bytes elsewhere
LongBytes == {4, 8}

Builds == [longBytes : LongBytes, overflowChecks : BOOLEAN]

\* cvt: a native return code r is a failure when r <= 0
cvt(r) == r > 0

\* cvt_p: a native pointer is a failure when it is null
cvt_p(p) == p # 0

-----------------------------------------------------------------------------
(* Asn1BitString *)

\* the largest bit index the calls are tried with
MaxBitIndex == 9

\* the bit indexes tried: the ends and the middle of the first byte, and the
\* bits of the following bytes up to MaxBitIndex
BitIndexes == {0, 3, 7} \cup 8..MaxBitIndex

\* 1 << (7 - (n & 7))
BitMask(n) == Pow2(7 - (n % 8))

\* ASN1_BIT_STRING_get_bit(a, n): 0 beyond the data, else the bit
ASN1_BIT_STRING_get_bit(a, n) ==
    LET w == n \div 8
    IN  IF Len(a) < w + 1 THEN 0 ELSE (a[w + 1] \div BitMask(n)) % 2

\* the data without its trailing zero bytes
RECURSIVE StripZeros(_)
StripZeros(a) ==
    IF Len(a) > 0 /\ a[Len(a)] = 0 THEN StripZeros(SubSeq(a, 1, Len(a) - 1)) ELSE a

\* ASN1_BIT_STRING_set_bit(a, n, value): clearing a bit beyond the data does
\* nothing; setting one grows the data, and fails when that fails
ASN1_BIT_STRING_set_bit(a, n, value, reallocOk) ==
    LET w     == n \div 8
        grown == [i \in 1..(w + 1) |-> IF i <= Len(a) THEN a[i] ELSE 0]
        d     == IF Len(a) < w + 1 THEN grown ELSE a
        old   == (d[w + 1] \div BitMask(n)) % 2
        byte  == (d[w + 1] - old * BitMask(n)) + (IF value # 0 THEN BitMask(n) ELSE 0)
    IN  IF Len(a) < w + 1 /\ value = 0
        THEN [a |-> a, ret |-> 1]
        ELSE IF Len(a) < w + 1 /\ ~reallocOk
             THEN [a |-> a, ret |-> 0]
             ELSE [a |-> StripZeros([d EXCEPT ![w + 1] = byte]), ret |-> 1]

\* `if value { 1 } else { 0 }` with the branches swapped
BoolAsCIntSwapped(value) == IF value THEN 0 ELSE 1

\* `if value { 1 } else { 0 }`
BoolAsCInt(value) == IF value THEN 1 ELSE 0

BitNoCall ==
    [op |-> "none", set |-> FALSE, n |-> 0, value |-> FALSE, ok |-> FALSE,
     before |-> <<>>, m |-> 0, got |-> FALSE]

\* Asn1BitStringRef::set_bit(n, value)
Asn1BitStringRef_set_bit(n, value) ==
    \E reallocOk \in BOOLEAN :
        LET r == ASN1_BIT_STRING_set_bit(bits, n, BoolAsCInt(value), reallocOk)
        IN  /\ bits' = r.a
            /\ bitRes' = [BitNoCall EXCEPT !.op = "set_bit", !.set = TRUE, !.n = n,
                                         !.value = value, !.ok = cvt(r.ret),
                                         !.before = bits]
            /\ UNCHANGED <<build, asn1int, intRes, heap, owners, res, txt, bios, render, dfn>>

\* Asn1BitStringRef::get_bit(n)
Asn1BitStringRef_get_bit(n) ==
    /\ bitRes' = [bitRes EXCEPT !.op = "get_bit", !.m = n, !.before = <<>>,
                                !.got = (ASN1_BIT_STRING_get_bit(bits, n) # 0)]
    /\ UNCHANGED <<build, asn1int, intRes, bits, heap, owners, res, txt, bios, render, dfn>>

NextBit ==
    \/ \E n \in BitIndexes, value \in BOOLEAN : Asn1BitStringRef_set_bit(n, value)
    \/ \E n \in BitIndexes : Asn1BitStringRef_get_bit(n)

-----------------------------------------------------------------------------
(* Asn1Integer *)

IntMaxI32 == 2147483647

\* the i32 values the calls are tried with
I32Samples ==
    {(-IntMaxI32) - 1, -IntMaxI32, -65536, -257, -256, -1, 0, 1, 42, 255, 256,
     65535, 65536, IntMaxI32}

\* ASN1_INTEGER: type, length and data (big-endian magnitude; null until set)
NativeInt(type, data, null) ==
    [type |-> type, length |-> Len(data), data |-> data, null |-> null]

\* what the integer may hold before a call: a fresh one, 42, -1, and two
\* values wider than 4 and than 8 bytes
IntInitial ==
    {NativeInt("INTEGER", <<>>, TRUE),
     NativeInt("INTEGER", <<42>>, FALSE),
     NativeInt("NEG_INTEGER", <<1>>, FALSE),
     NativeInt("INTEGER", <<1, 0, 0, 0, 0>>, FALSE),
     NativeInt("NEG_INTEGER", <<1, 0, 0, 0, 0, 0, 0, 0, 0>>, FALSE)}

\* ASN1_INTEGER_set(a, v), v a long.  The buffer is reallocated when it is
\* shorter than sizeof(long) + 1, and the call fails when that fails.
ASN1_INTEGER_set(a, v, mallocOk) ==
    LET w == Len(v)
        d == IF IsNeg(v) THEN WrappingNeg(v) ELSE v
        n == SigLen(d, w)
    IN  IF a.length < w + 1 /\ ~mallocOk
        THEN [a   |-> [type |-> "INTEGER", length |-> a.length, data |-> <<>>,
                       null |-> TRUE],
              ret |-> 0]
        ELSE [a   |-> NativeInt(IF IsNeg(v) THEN "NEG_INTEGER" ELSE "INTEGER",
                                Reverse(SubSeq(d, 1, n)), FALSE),
              ret |-> 1]

\* ASN1_INTEGER_get(a): the value as a long of w bytes, -1 when it is too long
ASN1_INTEGER_get(a, w) ==
    IF a.length > w
    THEN MinusOne(w)
    ELSE IF a.null
         THEN Zero(w)
         ELSE LET r == ZeroExtend(Reverse(a.data), w)
              IN  IF a.type = "NEG_INTEGER" THEN WrappingNeg(r) ELSE r

\* `value as c_long` of an i32: zero-extended, as `value as u32 as c_long` would
I32AsCLongUnsigned(b, w) == ZeroExtend(b, w)

\* `value as c_long` of an i32
I32AsCLong(b, w) == SignExtend(b, w)

\* `... as i64` of a c_long
CLongAsI64(b) == SignExtend(b, 8)

IntNoCall == [op |-> "none", set |-> FALSE, value |-> 0, ok |-> FALSE, got |-> Zero(8)]

\* Asn1IntegerRef::set(value)
Asn1IntegerRef_set(value) ==
    \E mallocOk \in BOOLEAN :
        LET r == ASN1_INTEGER_set(asn1int, I32AsCLong(I32ToBytes(value), build.longBytes),
                                  mallocOk)
        IN  /\ asn1int' = r.a
            /\ intRes' = [op |-> "set", set |-> TRUE, value |-> value, ok |-> cvt(r.ret),
                          got |-> Zero(8)]
            /\ UNCHANGED <<build, bits, bitRes, heap, owners, res, txt, bios, render, dfn>>

\* Asn1IntegerRef::get()
Asn1IntegerRef_get ==
    /\ intRes' = [intRes EXCEPT !.op = "get",
                                !.got = CLongAsI64(ASN1_INTEGER_get(asn1int, build.longBytes))]
    /\ UNCHANGED <<build, asn1int, bits, bitRes, heap, owners, res, txt, bios, render, dfn>>

NextInt ==
    \/ \E value \in I32Samples : Asn1IntegerRef_set(value)
    \/ Asn1IntegerRef_get

\* C4: after a set(v) that returned Ok, get() returns v as an i64, whatever
\* the integer held before the set.
C4_SetThenGet ==
    (intRes.op = "get" /\ intRes.set /\ intRes.ok)
        => /\ intRes.got = SignExtend(SubSeq(intRes.got, 1, 4), 8)
           /\ I32FromBytes(SubSeq(intRes.got, 1, 4)) = intRes.value

\* a get() after a successful set(-1) on an integer that held something else
C4_Witness ==
    /\ intRes.op = "get" /\ intRes.set /\ intRes.ok
    /\ intRes.value = -1
    /\ asn1int.type = "NEG_INTEGER"

-----------------------------------------------------------------------------
(* Owning values and the native objects they wrap *)

\* how many owning values a run creates
MaxOwners == 3

Kinds ==
    {"GeneralizedTime", "Time", "String", "Integer", "Type", "Object", "OctetString",
     "BitString"}

\* ffi::NID_undef
NID_undef == 0

commonName == <<99, 111, 109, 109, 111, 110, 78, 97, 109, 101>>

countryName == <<99, 111, 117, 110, 116, 114, 121, 78, 97, 109, 101>>

\* "1.2.3.4"
addedOid == <<49, 46, 50, 46, 51, 46, 52>>

\* A native object.  dynamic: the ASN1_OBJECT_FLAG_DYNAMIC flag (set on every
\* allocated object, clear on the entries of the static table); content: the
\* bytes, for an object its full textual form; frees: the free calls issued on
\* the handle; released: its memory was given back.
Native(kind, dynamic, nid, content) ==
    [kind |-> kind, dynamic |-> dynamic, nid |-> nid, content |-> content,
     frees |-> 0, released |-> FALSE]

\* The registry OBJ_nid2obj looks in: the static table nid_objs (NID_undef,
\* commonName = 13, countryName = 14) and one object added by OBJ_create.
\* A handle is an index of heap; 0 is the null pointer.
Registry ==
    <<Native("Object", FALSE, NID_undef, <<>>),
      Native("Object", FALSE, 13, commonName),
      Native("Object", FALSE, 14, countryName),
      Native("Object", TRUE, 1000, addedOid)>>

\* the identifiers from_nid is tried with; 9999 is in no table
NidSamples == {NID_undef, 13, 14, 1000, 9999}

\* OBJ_nid2obj(n): the registry's own object, or null
OBJ_nid2obj(n) ==
    IF \E h \in 1..Len(Registry) : Registry[h].nid = n
    THEN CHOOSE h \in 1..Len(Registry) : Registry[h].nid = n
    ELSE 0

\* OBJ_obj2nid(a): the object's nid field, or the registered nid of an object
\* with the same content, or NID_undef
OBJ_obj2nid(hp, a) ==
    IF a = 0
    THEN NID_undef
    ELSE IF hp[a].nid # 0
         THEN hp[a].nid
         ELSE IF hp[a].content # <<>>
                 /\ \E h \in 1..Len(Registry) : Registry[h].content = hp[a].content
              THEN Registry[CHOOSE h \in 1..Len(Registry) :
                                Registry[h].content = hp[a].content].nid
              ELSE NID_undef

\* the native free routine of every kind: a call on null does nothing;
\* ASN1_OBJECT_free gives the memory back only under the DYNAMIC flag
NativeFree(hp, p) ==
    IF p = 0
    THEN hp
    ELSE [hp EXCEPT ![p].frees = @ + 1, ![p].released = @ \/ hp[p].dynamic]

\* type_!: from_ptr wraps a pointer as it is
\* (from: the identifier a from_nid value was made from, else -1; of: the
\* value a clone was made from, else 0)
Own(kind, ptr, from, of) ==
    [kind |-> kind, ptr |-> ptr, from |-> from, of |-> of, dropped |-> FALSE]

Live(i) == i \in 1..Len(owners) /\ ~owners[i].dropped

\* op: the call; failed: a native call in it returned its failure sentinel;
\* err: the call returned Err; owner: the value it made; src: the value it was
\* made from; arg: the identifier given; nid: what nid() returned (-1: None)
Result(op, failed, err, owner, src, arg, nid) ==
    [op |-> op, failed |-> failed, err |-> err, owner |-> owner, src |-> src,
     arg |-> arg, nid |-> nid]

NoCall == Result("none", FALSE, FALSE, 0, 0, 0, 0)

OwnRest == <<build, asn1int, intRes, bits, bitRes, txt, bios, render>>

\* a constructor whose native call returned handle p, checked with cvt_p
Checked(op, kind, p, hp, arg) ==
    IF cvt_p(p)
    THEN /\ heap' = hp
         /\ owners' = Append(owners, Own(kind, p, arg, 0))
         /\ res' = Result(op, FALSE, FALSE, Len(owners) + 1, 0, arg, 0)
    ELSE /\ heap' = heap
         /\ owners' = owners
         /\ res' = Result(op, TRUE, TRUE, 0, 0, arg, 0)

\* a constructor whose native call returned handle p, wrapped without a check
Unchecked(op, kind, p, hp, src) ==
    /\ heap' = hp
    /\ owners' = Append(owners, Own(kind, p, -1, src))
    /\ res' = Result(op, p = 0, FALSE, Len(owners) + 1, src, 0, 0)


\* X509_gmtime_adj(NULL, period): a new ASN1_TIME, or null
X509_gmtime_adj(hp, period, ok) ==
    IF ok
    THEN [p |-> Len(hp) + 1, hp |-> Append(hp, Native("Time", TRUE, 0, period))]
    ELSE [p |-> 0, hp |-> hp]

\* ASN1_OBJECT_new(): a new empty object, or null
ASN1_OBJECT_new(hp, ok) ==
    IF ok
    THEN [p |-> Len(hp) + 1, hp |-> Append(hp, Native("Object", TRUE, 0, <<>>))]
    ELSE [p |-> 0, hp |-> hp]

\* OBJ_dup(o): null for null, o itself when o is not DYNAMIC, else a copy or
\* null when the allocation fails
OBJ_dup(hp, o, ok) ==
    IF o = 0
    THEN [p |-> 0, hp |-> hp]
    ELSE IF ~hp[o].dynamic
         THEN [p |-> o, hp |-> hp]
         ELSE IF ok
              THEN [p  |-> Len(hp) + 1,
                    hp |-> Append(hp, Native("Object", TRUE, hp[o].nid, hp[o].content))]
              ELSE [p |-> 0, hp |-> hp]

\* ASN1_OCTET_STRING_dup(s): a copy, or null
ASN1_OCTET_STRING_dup(hp, o, ok) ==
    IF o # 0 /\ ok
    THEN [p |-> Len(hp) + 1, hp |-> Append(hp, Native("OctetString", TRUE, 0, hp[o].content))]
    ELSE [p |-> 0, hp |-> hp]

\* Asn1Time::from_period(period), on heap, owners and res
from_period(period) ==
    /\ Len(owners) < MaxOwners
    /\ \E ok \in BOOLEAN :
           LET r == X509_gmtime_adj(heap, period, ok)
           IN  Checked("from_period", "Time", r.p, r.hp, -1)

Asn1Time_from_period(period) == from_period(period) /\ UNCHANGED <<OwnRest, dfn>>

\* Asn1Object::new()
Asn1Object_new ==
    /\ Len(owners) < MaxOwners
    /\ \E ok \in BOOLEAN :
           LET r == ASN1_OBJECT_new(heap, ok)
           IN  Unchecked("new", "Object", r.p, r.hp, 0)
    /\ UNCHANGED <<OwnRest, dfn>>

\* Asn1Object::from_nid(nid)
Asn1Object_from_nid(nid) ==
    /\ Len(owners) < MaxOwners
    /\ Checked("from_nid", "Object", OBJ_nid2obj(nid), heap, nid)
    /\ UNCHANGED <<OwnRest, dfn>>

\* an owning value received from the library: from_ptr of a handle of its own
FromPtr(kind, content) ==
    /\ Len(owners) < MaxOwners
    /\ heap' = Append(heap, Native(kind, TRUE, 0, content))
    /\ owners' = Append(owners, Own(kind, Len(heap) + 1, -1, 0))
    /\ res' = Result("from_ptr", FALSE, FALSE, Len(owners) + 1, 0, 0, 0)
    /\ UNCHANGED <<OwnRest, dfn>>

\* Clone for Asn1Object
Asn1Object_clone(i) ==
    /\ Len(owners) < MaxOwners
    /\ Live(i) /\ owners[i].kind = "Object"
    /\ \E ok \in BOOLEAN :
           LET r == OBJ_dup(heap, owners[i].ptr, ok)
           IN  Unchecked("clone", "Object", r.p, r.hp, i)
    /\ UNCHANGED <<OwnRest, dfn>>

\* Clone for Asn1OctetString
Asn1OctetString_clone(i) ==
    /\ Len(owners) < MaxOwners
    /\ Live(i) /\ owners[i].kind = "OctetString"
    /\ \E ok \in BOOLEAN :
           LET r == ASN1_OCTET_STRING_dup(heap, owners[i].ptr, ok)
           IN  Unchecked("clone", "OctetString", r.p, r.hp, i)
    /\ UNCHANGED <<OwnRest, dfn>>

\* type_!: Drop calls the kind's free routine on the wrapped pointer
Drop(i) ==
    /\ Live(i)
    /\ heap' = NativeFree(heap, owners[i].ptr)
    /\ owners' = [owners EXCEPT ![i].dropped = TRUE]
    /\ res' = Result("drop", FALSE, FALSE, i, 0, 0, 0)
    /\ UNCHANGED <<OwnRest, dfn>>

\* ASN1_STRING_to_UTF8(&ptr, s): a new buffer with the text and its length, or
\* a negative length
ASN1_STRING_to_UTF8(hp, a, ok) ==
    IF ok
    THEN [len |-> Len(hp[a].content), p |-> Len(hp) + 1,
          hp  |-> Append(hp, Native("OpensslString", TRUE, 0, hp[a].content))]
    ELSE [len |-> -1, p |-> 0, hp |-> hp]

\* Asn1StringRef::as_utf8(): an error for a negative length, else the buffer
\* wrapped as an OpensslString
Asn1StringRef_as_utf8(i) ==
    /\ Len(owners) < MaxOwners
    /\ Live(i) /\ owners[i].kind = "String" /\ owners[i].ptr # 0
    /\ \E ok \in BOOLEAN :
           LET r == ASN1_STRING_to_UTF8(heap, owners[i].ptr, ok)
           IN  IF r.len < 0
               THEN /\ heap' = heap
                    /\ owners' = owners
                    /\ res' = Result("as_utf8", TRUE, TRUE, 0, i, 0, 0)
               ELSE /\ heap' = r.hp
                    /\ owners' = Append(owners, Own("OpensslString", r.p, -1, 0))
                    /\ res' = Result("as_utf8", FALSE, FALSE, Len(owners) + 1, i, 0, 0)
    /\ UNCHANGED <<OwnRest, dfn>>

\* Asn1ObjectRef::nid(): None (-1) for NID_undef
Asn1ObjectRef_nid(i) ==
    /\ Live(i) /\ owners[i].kind = "Object"
    /\ LET nid == OBJ_obj2nid(heap, owners[i].ptr)
       IN  res' = Result("nid", FALSE, FALSE, i, 0, 0, IF nid = NID_undef THEN -1 ELSE nid)
    /\ UNCHANGED <<heap, owners>>
    /\ UNCHANGED <<OwnRest, dfn>>

\* the contents a received value is tried with
Contents == {<<>>, commonName}

NextOwn ==
    \/ Asn1Time_from_period(Zero(build.longBytes))
    \/ Asn1Object_new
    \/ \E nid \in NidSamples : Asn1Object_from_nid(nid)
    \/ \E kind \in Kinds, content \in Contents : FromPtr(kind, content)
    \/ \E i \in 1..Len(owners) : Asn1Object_clone(i)
    \/ \E i \in 1..Len(owners) : Asn1OctetString_clone(i)
    \/ \E i \in 1..Len(owners) : Drop(i)
    \/ \E i \in 1..Len(owners) : Asn1ObjectRef_nid(i)
    \/ \E i \in 1..Len(owners) : Asn1StringRef_as_utf8(i)

\* C1: the free call is issued at most once on each native handle, and once
\* on the handle of every destroyed value whose construction succeeded.
C1_FreedOncePerHandle ==
    /\ \A h \in 1..Len(heap) : heap[h].frees <= 1
    /\ \A i \in 1..Len(owners) :
           (owners[i].dropped /\ owners[i].ptr # 0) => heap[owners[i].ptr].frees = 1

\* C2: a clone has a handle of its own with the source's content, and
\* destroying either of the two leaves the other's handle and content intact.
C2_CloneIndependent ==
    /\ res.op = "clone"
           => /\ owners[res.owner].ptr # 0
              /\ owners[res.owner].ptr # owners[res.src].ptr
              /\ heap[owners[res.owner].ptr].content = heap[owners[res.src].ptr].content
    /\ \A i, j \in 1..Len(owners) :
           (owners[j].of = i /\ owners[i].dropped # owners[j].dropped)
               => LET k == IF owners[i].dropped THEN j ELSE i
                  IN  owners[k].ptr # 0 /\ ~heap[owners[k].ptr].released

\* C3: a call in which a native routine returned its failure sentinel
\* returns an error.
C3_FailureIsError == res.failed => res.err

-----------------------------------------------------------------------------
(* Asn1ObjectRef::text() and Display for Asn1ObjectRef *)

\* the capacity of text()'s buffer and the length given to OBJ_obj2txt
TextBufLen == 80

\* the longest textual form tried
MaxTextLen == 82

\* the lengths of textual form tried: short ones and those around the buffer's
TextLens == {1, 2} \cup ((TextBufLen - 2)..MaxTextLen)

\* a dotted form "1.1.1..." of the given length
Dotted(len) == [i \in 1..len |-> IF i % 2 = 1 THEN 49 ELSE 46]

\* the full textual form of the object behind a handle ("" for null and for
\* an object without data)
FullText(hp, a) == IF a = 0 THEN <<>> ELSE hp[a].content

\* OBJ_obj2txt(buf, buf_len, a, 0): writes the textual form cut to
\* buf_len - 1 bytes and a terminating 0, returns the full length; on failure
\* returns -1 and leaves buf terminated at its start
OBJ_obj2txt(hp, buf_len, a, ok) ==
    LET full == FullText(hp, a)
        n    == IF Len(full) < buf_len - 1 THEN Len(full) ELSE buf_len - 1
    IN  IF ok
        THEN [buf |-> SubSeq(full, 1, n) \o <<0>>, ret |-> Len(full)]
        ELSE [buf |-> <<0>>, ret |-> -1]

\* CStr::from_ptr(buf): the bytes before the first 0
RECURSIVE CStrLen(_, _)
CStrLen(buf, i) == IF buf[i] = 0 THEN i - 1 ELSE CStrLen(buf, i + 1)

\* what a read of n bytes of released memory may give besides what was there
Clobbered(n) == [i \in 1..n |-> 0]

IsPrefix(a, b) == Len(a) <= Len(b) /\ SubSeq(b, 1, Len(a)) = a

TextIdle ==
    [pc |-> "idle", owner |-> 0, caller |-> "none", buf |-> <<>>, bufLive |-> FALSE,
     size |-> 0, len |-> 0, out |-> <<>>]

TextRest == <<build, asn1int, intRes, bits, bitRes, heap, owners, res, bios, render, dfn>>

\* text(), line 134: the buffer is allocated.  caller: "text" for a direct
\* call, "fmt" for Display::fmt
Text_alloc(i, caller) ==
    /\ txt.pc \in {"idle", "read"}
    /\ Live(i) /\ owners[i].kind = "Object"
    /\ txt' = [TextIdle EXCEPT !.pc = "alloc", !.owner = i, !.caller = caller,
                               !.bufLive = TRUE]
    /\ UNCHANGED TextRest

\* text(), line 135: the native render; its return value is not looked at
Text_render ==
    /\ txt.pc = "alloc"
    /\ \E ok \in BOOLEAN :
           LET r == OBJ_obj2txt(heap, TextBufLen, owners[txt.owner].ptr, ok)
           IN  txt' = [txt EXCEPT !.pc = "rendered", !.buf = r.buf, !.size = r.ret]
    /\ UNCHANGED TextRest

\* text(), lines 136-138: the string up to the first 0 is returned, and the
\* buffer goes out of scope
Text_return ==
    /\ txt.pc = "rendered"
    /\ txt' = [txt EXCEPT !.pc = "returned", !.len = CStrLen(txt.buf, 1),
                          !.bufLive = FALSE]
    /\ UNCHANGED TextRest

\* the caller reads the returned string (Display::fmt: write_str copies it)
Text_read ==
    /\ txt.pc = "returned"
    /\ \E intact \in BOOLEAN :
           txt' = [txt EXCEPT !.pc = "read",
                              !.out = IF txt.bufLive \/ intact
                                      THEN SubSeq(txt.buf, 1, txt.len)
                                      ELSE Clobbered(txt.len)]
    /\ UNCHANGED TextRest

NextObj ==
    \/ Asn1Object_new
    \/ \E nid \in NidSamples : Asn1Object_from_nid(nid)
    \/ \E len \in TextLens : FromPtr("Object", Dotted(len))
    \/ \E i \in 1..Len(owners) : Asn1ObjectRef_nid(i)
    \/ \E i \in 1..Len(owners), caller \in {"text", "fmt"} : Text_alloc(i, caller)
    \/ Text_render
    \/ Text_return
    \/ Text_read

\* C6: from_nid(id) is an error exactly for the identifiers the registry does
\* not know; the object of a known one has nid() = Some(id) and the
\* registered name as text(); nid() is None exactly for the native NID_undef.
C6_FromNidRoundTrip ==
    /\ res.op = "from_nid" => (res.err <=> OBJ_nid2obj(res.arg) = 0)
    /\ res.op = "nid" =>
           /\ owners[res.owner].from # -1 => res.nid = owners[res.owner].from
           /\ res.nid = -1 <=> OBJ_obj2nid(heap, owners[res.owner].ptr) = NID_undef
    /\ (txt.pc = "read" /\ owners[txt.owner].from # -1)
           => txt.out = Registry[OBJ_nid2obj(owners[txt.owner].from)].content

\* C8: the render writes at most 80 bytes, the returned text has at most 79
\* and is a prefix of the full textual form, as read by a caller of text() and
\* as written out by Display.
C8_TextBounded ==
    /\ Len(txt.buf) <= TextBufLen
    /\ txt.pc \in {"returned", "read"} => txt.len <= TextBufLen - 1
    /\ txt.pc = "read" => IsPrefix(txt.out, FullText(heap, owners[txt.owner].ptr))

\* C10: while the caller holds the string text() returned, the buffer it
\* points into is allocated.
C10_TextStorageLive == txt.pc \in {"returned", "read"} => txt.bufLive

-----------------------------------------------------------------------------
(* Display for Asn1GeneralizedTimeRef, Asn1TimeRef and Asn1OctetStringRef *)

\* how many renders a run makes
MaxRenders == 3

Rendered == {"GeneralizedTime", "Time", "OctetString"}

\* the texts the native print routines are made to produce
PrintTexts == {<<>>, commonName, addedOid}

\* MemBio::new(): a buffer of its own
MemBio_new(bs) == Append(bs, [live |-> TRUE, releases |-> 0, data |-> <<>>])

\* Drop for MemBio: the buffer is released
MemBio_drop(bs, b) == [bs EXCEPT ![b].live = FALSE, ![b].releases = @ + 1]

\* the buffers when try!(cvt(..print..)) returns early, had mem_bio not been
\* released on that path
FailExitLeaking(bs, b) == bs

\* the buffers when try!(cvt(..print..)) returns early: mem_bio goes out of
\* scope
FailExit(bs, b) == MemBio_drop(bs, b)

RenderIdle ==
    [pc |-> "idle", kind |-> "none", value |-> <<>>, bio |-> 0, out |-> <<>>,
     failed |-> FALSE, err |-> FALSE, readLive |-> TRUE, count |-> 0]

RenderRest == <<build, asn1int, intRes, bits, bitRes, heap, owners, res, txt, dfn>>

\* fmt, first statement: try!(MemBio::new())
Display_fmt_new(kind, value) ==
    /\ render.pc \in {"idle", "done"}
    /\ render.count < MaxRenders
    /\ \E ok \in BOOLEAN :
           IF ok
           THEN /\ bios' = MemBio_new(bios)
                /\ render' = [RenderIdle EXCEPT !.pc = "print", !.kind = kind,
                                                !.value = value, !.bio = Len(bios) + 1,
                                                !.count = render.count + 1]
           ELSE /\ bios' = bios
                /\ render' = [RenderIdle EXCEPT !.pc = "done", !.kind = kind,
                                                !.value = value, !.failed = TRUE,
                                                !.err = TRUE,
                                                !.count = render.count + 1]
    /\ UNCHANGED RenderRest

\* fmt, second statement: try!(cvt(ffi::.._print(mem_bio.as_ptr(), self.as_ptr())))
Display_fmt_print ==
    /\ render.pc = "print"
    /\ \E ret \in {0, 1} :
           IF cvt(ret)
           THEN /\ bios' = [bios EXCEPT ![render.bio].data = render.value]
                /\ render' = [render EXCEPT !.pc = "write"]
           ELSE /\ bios' = FailExit(bios, render.bio)
                /\ render' = [render EXCEPT !.pc = "done", !.failed = TRUE, !.err = TRUE]
    /\ UNCHANGED RenderRest

\* fmt, third statement: write!(f, "{}", from_utf8_unchecked(mem_bio.get_buf()));
\* the formatter may refuse the text
Display_fmt_write ==
    /\ render.pc = "write"
    /\ \E wrote \in BOOLEAN :
           render' = [render EXCEPT !.pc = "drop", !.out = bios[render.bio].data,
                                    !.readLive = bios[render.bio].live,
                                    !.err = ~wrote]
    /\ UNCHANGED <<bios, RenderRest>>

\* fmt, end of the block: mem_bio goes out of scope
Display_fmt_drop ==
    /\ render.pc = "drop"
    /\ bios' = MemBio_drop(bios, render.bio)
    /\ render' = [render EXCEPT !.pc = "done"]
    /\ UNCHANGED RenderRest

NextRender ==
    \/ \E kind \in Rendered, value \in PrintTexts : Display_fmt_new(kind, value)
    \/ Display_fmt_print
    \/ Display_fmt_write
    \/ Display_fmt_drop

\* C7: a scratch buffer is released at most once, is held while the render
\* runs and was allocated when its bytes were copied out, and is released
\* once every render has returned; a failed print makes the render return an
\* error.
C7_ScratchReleasedOnce ==
    /\ \A b \in 1..Len(bios) : bios[b].releases <= 1
    /\ render.pc \in {"print", "write", "drop"} => bios[render.bio].live
    /\ render.readLive
    /\ render.pc \in {"idle", "done"}
           => \A b \in 1..Len(bios) : bios[b].releases = 1 /\ ~bios[b].live
    /\ (render.pc = "done" /\ render.failed) => render.err

\* a render whose print failed has returned, after one that succeeded
C7_Witness ==
    /\ render.pc = "done" /\ render.failed /\ render.bio = 2
    /\ bios[1].data # <<>>
    /\ bios[2].releases = 1

-----------------------------------------------------------------------------
(* Asn1Time::days_from_now *)

\* the day counts tried (u32, as bytes): 24855 is the last whose seconds fit 31
\* bits; the last two are 2^31 and 2^32 - 1
U32Samples ==
    {NatToBytes(n, 4) : n \in {0, 1, 365, 24855, 24856, 49710, 2147483647}}
        \cup {<<0, 0, 0, 128>>, <<255, 255, 255, 255>>}

\* `days as c_long` of a u32: the same bits in 4 bytes, zero-extended in 8
U32AsCLong(b, w) == ZeroExtend(b, w)

\* whether x * k leaves the range of a signed integer of Len(x) bytes
Overflows(x, k) ==
    LET wide == WrappingMul(SignExtend(x, Len(x) + 4), k)
    IN  SignExtend(SubSeq(wide, 1, Len(x)), Len(x) + 4) # wide

\* the factors of `days as c_long * 60 * 60 * 24`, left to right
Factors == <<60, 60, 24>>

DfnIdle == [pc |-> "idle", days |-> Zero(4), x |-> <<>>, step |-> 0]

DfnRest == <<build, asn1int, intRes, bits, bitRes, txt, bios, render>>

\* days_from_now(days): `days as c_long`
days_from_now_cast(days) ==
    /\ dfn.pc = "idle"
    /\ dfn' = [pc |-> "mul", days |-> days, x |-> U32AsCLong(days, build.longBytes),
               step |-> 1]
    /\ UNCHANGED <<heap, owners, res, DfnRest>>

\* one of the three multiplications: a panic on overflow where the build
\* checks for it, and the wrapped product where it does not
days_from_now_mul ==
    /\ dfn.pc = "mul"
    /\ IF build.overflowChecks /\ Overflows(dfn.x, Factors[dfn.step])
       THEN dfn' = [dfn EXCEPT !.pc = "panicked"]
       ELSE dfn' = [dfn EXCEPT !.x = WrappingMul(dfn.x, Factors[dfn.step]),
                               !.step = dfn.step + 1,
                               !.pc = IF dfn.step = Len(Factors) THEN "call" ELSE "mul"]
    /\ UNCHANGED <<heap, owners, res, DfnRest>>

\* Asn1Time::from_period(period) with the product
days_from_now_call ==
    /\ dfn.pc = "call"
    /\ from_period(dfn.x)
    /\ dfn' = [dfn EXCEPT !.pc = "done"]
    /\ UNCHANGED DfnRest

NextTime ==
    \/ \E days \in U32Samples : days_from_now_cast(days)
    \/ days_from_now_mul
    \/ days_from_now_call

\* C9: days_from_now(d) hands d * 86400 seconds to the native adjust call,
\* for every d of the u32 range.
C9_DaysFromNowExact ==
    /\ dfn.pc # "panicked"
    /\ dfn.pc = "done" => SignExtend(dfn.x, 8) = WrappingMul(ZeroExtend(dfn.days, 8), 86400)

-----------------------------------------------------------------------------
(* Specifications: one per component, the other components at rest *)

AtRest ==
    [build    |-> [longBytes |-> 8, overflowChecks |-> FALSE],
     asn1int  |-> NativeInt("INTEGER", <<>>, TRUE)]

InitInt ==
    /\ build \in Builds
    /\ asn1int \in IntInitial
    /\ intRes = IntNoCall
    /\ bits = <<>> /\ bitRes = BitNoCall
    /\ heap = Registry /\ owners = <<>> /\ res = NoCall
    /\ txt = TextIdle
    /\ bios = <<>> /\ render = RenderIdle
    /\ dfn = DfnIdle

\* every component in its state after construction, on a 64-bit build
InitRest ==
    /\ build = AtRest.build
    /\ asn1int = AtRest.asn1int
    /\ intRes = IntNoCall
    /\ bits = <<>> /\ bitRes = BitNoCall
    /\ heap = Registry /\ owners = <<>> /\ res = NoCall
    /\ txt = TextIdle
    /\ bios = <<>> /\ render = RenderIdle
    /\ dfn = DfnIdle

InitTime ==
    /\ build \in Builds
    /\ asn1int = AtRest.asn1int
    /\ intRes = IntNoCall
    /\ bits = <<>> /\ bitRes = BitNoCall
    /\ heap = Registry /\ owners = <<>> /\ res = NoCall
    /\ txt = TextIdle
    /\ bios = <<>> /\ render = RenderIdle
    /\ dfn = DfnIdle

SpecInt == InitInt /\ [][NextInt]_vars

SpecBit == InitRest /\ [][NextBit]_vars

SpecOwn == InitRest /\ [][NextOwn]_vars

SpecObj == InitRest /\ [][NextObj]_vars

SpecRender == InitRest /\ [][NextRender]_vars

SpecTime == InitTime /\ [][NextTime]_vars

====
